---- MODULE Spec2Model ----
(***************************************************************************)
(* A model of ai_code_reviewer.py: the pipeline of main (clone, collect,   *)
(* read, build_prompt, get_code_review, write, cleanup) as a state machine *)
(* over the scratch directory and the output file, and build_prompt as a   *)
(* pure function over character strings.                                   *)
(*                                                                         *)
(* Text is modelled by TLA+ strings, character for character.  The one     *)
(* character a TLA+ string literal cannot hold, the backquote, is written  *)
(* as an apostrophe; every length is the length of the Python string.      *)
(***************************************************************************)
EXTENDS Integers, Sequences, FiniteSets, TLC

(***************************************************************************)
(* Bounds of the model.                                                    *)
(***************************************************************************)
\* number of files of the pool a cloned repository holds at most
MaxFiles == 2
\* number of (path, content) pairs handed to build_prompt at most
MaxSnippets == 3

(***************************************************************************)
(* Configuration (lines 11-23).                                            *)
(***************************************************************************)
SUPPORTED_EXTENSIONS ==
    { ".py", ".js", ".ts", ".jsx", ".tsx", ".java", ".cpp", ".c", ".h", ".hpp",
      ".cs", ".go", ".rs", ".rb", ".php", ".swift", ".kt", ".scala", ".html", ".css",
      ".scss", ".sass", ".json", ".yaml", ".yml", ".md", ".sh", ".bash", ".sql" }

EXCLUDE_DIRS ==
    { "__pycache__", "node_modules", "venv", "env", ".git", ".svn", ".hg",
      "dist", "build", "target", "out", "bin", "obj", ".idea", ".vscode",
      ".DS_Store", "Thumbs.db" }

MAX_TOTAL_CHARS == 100000

\* clone_dir = Path("temp_repo_clone"): a path is the sequence of its parts
clone_dir == << "temp_repo_clone" >>

(***************************************************************************)
(* Strings and paths as Python and pathlib compute on them.                *)
(***************************************************************************)
\* the characters of ASCII 32..95 and 97..126 in code point order
AsciiLow == " !\"#$%&'()*+,-./0123456789:;<=>?@ABCDEFGHIJKLMNOPQRSTUVWXYZ[\\]^_"
AsciiHigh == "abcdefghijklmnopqrstuvwxyz{|}~"

CharAt(s, i) == SubSeq(s, i, i)

\* ord(c)
Ord(c) ==
    IF \E i \in 1..Len(AsciiLow) : CharAt(AsciiLow, i) = c
    THEN 31 + (CHOOSE i \in 1..Len(AsciiLow) : CharAt(AsciiLow, i) = c)
    ELSE 96 + (CHOOSE i \in 1..Len(AsciiHigh) : CharAt(AsciiHigh, i) = c)

\* str.lower() on one character: A-Z (65..90) map to a-z (97..122)
LowerChar(c) ==
    IF Ord(c) >= 65 /\ Ord(c) <= 90 THEN CharAt(AsciiHigh, Ord(c) - 64) ELSE c

RECURSIVE lower(_)
lower(s) == IF s = "" THEN "" ELSE LowerChar(Head(s)) \o lower(Tail(s))

\* str < str: lexicographic by code point
RECURSIVE StrLess(_, _)
StrLess(a, b) ==
    IF b = "" THEN FALSE
    ELSE IF a = "" THEN TRUE
    ELSE IF Head(a) = Head(b) THEN StrLess(Tail(a), Tail(b))
    ELSE Ord(Head(a)) < Ord(Head(b))

\* PurePath.__lt__: the parts compared as lists of strings
RECURSIVE PathLess(_, _)
PathLess(p, q) ==
    IF q = << >> THEN FALSE
    ELSE IF p = << >> THEN TRUE
    ELSE IF Head(p) = Head(q) THEN PathLess(Tail(p), Tail(q))
    ELSE StrLess(Head(p), Head(q))

\* str.rfind('.') as a 1-based index, 0 when there is no dot
RECURSIVE RFindDot(_, _)
RFindDot(name, i) ==
    IF i = 0 THEN 0
    ELSE IF CharAt(name, i) = "." THEN i
    ELSE RFindDot(name, i - 1)

\* PurePath.suffix: the last dot of the final component and what follows it,
\* unless that dot is the first or the last character of the name
suffix(p) ==
    LET name == p[Len(p)]
        i == RFindDot(name, Len(name))
    IN IF 1 < i /\ i < Len(name) THEN SubSeq(name, i, Len(name)) ELSE ""

\* str(path): the parts joined by "/"
RECURSIVE PathStr(_)
PathStr(p) ==
    IF p = << >> THEN ""
    ELSE IF Len(p) = 1 THEN p[1]
    ELSE p[1] \o "/" \o PathStr(Tail(p))

\* file_path.relative_to(root), for a path under root
relative_to(p, root) == SubSeq(p, Len(root) + 1, Len(p))

\* ''.join(blocks)
RECURSIVE Join(_)
Join(blocks) == IF blocks = << >> THEN "" ELSE Head(blocks) \o Join(Tail(blocks))

(***************************************************************************)
(* collect_code_files (lines 32-41): the test of one entry of the walk,    *)
(* and the final sort.                                                     *)
(***************************************************************************)
\* lines 35-39: a regular file, an allow-listed lower-cased suffix, and no
\* part of the relative path in EXCLUDE_DIRS
Selected(entry, root) ==
    /\ entry.kind = "file"
    /\ lower(suffix(entry.path)) \in SUPPORTED_EXTENSIONS
    /\ \A i \in 1..Len(relative_to(entry.path, root)) :
           relative_to(entry.path, root)[i] \notin EXCLUDE_DIRS

\* insertion of one path into a sorted list
RECURSIVE Insert(_, _)
Insert(p, s) ==
    IF s = << >> THEN << p >>
    ELSE IF PathLess(p, Head(s)) THEN << p >> \o s
    ELSE << Head(s) >> \o Insert(p, Tail(s))

\* the list returned as the walk built it
sortedNot(s) == s

RECURSIVE sorted(_)
sorted(s) == IF s = << >> THEN << >> ELSE Insert(Head(s), sorted(Tail(s)))

\* read_file_safe without its except clause: the exception leaves it
read_file_unsafe(data) ==
    IF data.ok THEN [raised |-> FALSE, value |-> data.text]
    ELSE [raised |-> TRUE, value |-> data.text]

(***************************************************************************)
(* read_file_safe (lines 43-48).  A file's data is [ok, text]: the decoded *)
(* text when ok, the description of the exception open or read raises      *)
(* otherwise.  The result of a call is [raised, value]: the value it       *)
(* returns, or the message of the exception that leaves it.                *)
(***************************************************************************)
read_file_safe(data) ==
    IF data.ok THEN [raised |-> FALSE, value |-> data.text]
    ELSE [raised |-> FALSE, value |-> "[ERROR reading file: " \o data.text \o "]"]

(***************************************************************************)
(* build_prompt (lines 50-81).                                             *)
(***************************************************************************)
intro(repo_url) ==
    "You are an expert software engineer performing a professional code review "
    \o "for the GitHub repository: " \o repo_url \o "\n\n"
    \o "Review the following code files. Focus on:\n"
    \o "- Code quality, readability, and maintainability\n"
    \o "- Potential bugs or security issues\n"
    \o "- Performance concerns\n"
    \o "- Adherence to best practices\n"
    \o "- Suggestions for improvement (be specific and constructive)\n\n"
    \o "Provide your feedback in the following format:\n\n"
    \o "## Summary\n"
    \o "<Brief overall assessment>\n\n"
    \o "## Findings\n"
    \o "- [Severity: High/Medium/Low] in 'filename': <description>\n"
    \o "- ...\n\n"
    \o "## Recommendations\n"
    \o "<General advice for the project>\n\n"
    \o "---\n\n"

\* line 75
block(file_path, content) ==
    "### " \o PathStr(file_path) \o "\n\n'''"
    \o SubSeq(suffix(file_path), 2, Len(suffix(file_path)))
    \o "\n" \o content \o "\n'''\n\n"

\* the loop with continue in the place of break: an overflowing block is
\* skipped and the packing goes on
RECURSIVE PackFromSkipping(_, _, _, _)
PackFromSkipping(code_snippets, i, total_chars, file_blocks) ==
    IF i > Len(code_snippets) THEN file_blocks
    ELSE LET b == block(code_snippets[i][1], code_snippets[i][2])
         IN IF total_chars + Len(b) > MAX_TOTAL_CHARS
            THEN PackFromSkipping(code_snippets, i + 1, total_chars, file_blocks)
            ELSE PackFromSkipping(code_snippets, i + 1, total_chars + Len(b),
                                  Append(file_blocks, b))

\* lines 74-79: the loop from snippet i on, with its break
RECURSIVE PackFrom(_, _, _, _)
PackFrom(code_snippets, i, total_chars, file_blocks) ==
    IF i > Len(code_snippets) THEN file_blocks
    ELSE LET b == block(code_snippets[i][1], code_snippets[i][2])
         IN IF total_chars + Len(b) > MAX_TOTAL_CHARS
            THEN file_blocks
            ELSE PackFrom(code_snippets, i + 1, total_chars + Len(b),
                          Append(file_blocks, b))

\* lines 71-81
build_prompt(code_snippets, repo_url) ==
    intro(repo_url)
    \o Join(PackFrom(code_snippets, 1, Len(intro(repo_url)), << >>))

\* get_code_review without the test of the status code
get_code_review_any_status(response) ==
    IF ~response.choices
    THEN [raised |-> TRUE, value |-> "'choices'"]
    ELSE [raised |-> FALSE, value |-> response.content]

(***************************************************************************)
(* get_code_review (lines 83-101), as a function of the response that      *)
(* requests.post returned.  A response is [status_code, text, choices,     *)
(* content]: choices tells whether the body is JSON holding                *)
(* choices[0].message.content, and content is that text.  The result is    *)
(* [raised, value]: the returned text, or the message of the exception.    *)
(***************************************************************************)
get_code_review(response) ==
    IF response.status_code # 200
    THEN [raised |-> TRUE,
          value |-> "OpenRouter API error: " \o ToString(response.status_code)
                    \o " - " \o response.text]
    ELSE IF ~response.choices
    THEN [raised |-> TRUE, value |-> "'choices'"]
    ELSE [raised |-> FALSE, value |-> response.content]

(***************************************************************************)
(* The world outside the program: repositories, the scratch directory,     *)
(* the endpoint's answers.                                                 *)
(***************************************************************************)
\* the files a remote repository may hold: path relative to its root, data
PoolFiles ==
    { [rel |-> << "a.py" >>, data |-> [ok |-> TRUE, text |-> "print(1)\n"]],
      [rel |-> << "B.PY" >>,
       data |-> [ok |-> FALSE,
                 text |-> "'utf-8' codec can't decode byte 0xff in position 0: invalid start byte"]],
      [rel |-> << "src", "m.js" >>, data |-> [ok |-> TRUE, text |-> "let x = 1;\n"]],
      [rel |-> << "src", "build", "y.c" >>, data |-> [ok |-> TRUE, text |-> "int y;\n"]],
      [rel |-> << "doc.txt" >>, data |-> [ok |-> TRUE, text |-> "notes\n"]],
      [rel |-> << ".py" >>, data |-> [ok |-> TRUE, text |-> "hidden\n"]],
      [rel |-> << "lib.js", "x.c" >>, data |-> [ok |-> TRUE, text |-> ""]],
      [rel |-> << "Env", "k.go" >>,
       data |-> [ok |-> FALSE,
                 text |-> "[Errno 13] Permission denied: 'temp_repo_clone/Env/k.go'"]],
      [rel |-> << "src-x.py" >>, data |-> [ok |-> TRUE, text |-> "y = 2\n"]] }

\* what git itself puts into every clone
GitFiles ==
    { [rel |-> << ".git", "HEAD" >>,
       data |-> [ok |-> TRUE, text |-> "ref: refs/heads/main\n"]] }

NoData == [ok |-> FALSE, text |-> "[Errno 21] Is a directory"]

\* the entries of a directory tree under root holding the given files: the
\* files and every directory on the way to them
Tree(root, files) ==
    { [path |-> root \o f.rel, kind |-> "file", data |-> f.data] : f \in files }
    \cup UNION { { [path |-> root \o SubSeq(f.rel, 1, n), kind |-> "dir",
                       data |-> NoData] : n \in 1..(Len(f.rel) - 1) } : f \in files }

\* the repositories the clone may fetch: at most MaxFiles files of the pool
Repositories == { files \in SUBSET PoolFiles : Cardinality(files) <= MaxFiles }

\* what an earlier run that was killed may have left at the scratch path
StaleTree == Tree(clone_dir, GitFiles \cup { f \in PoolFiles : f.rel = << "a.py" >> })

\* what a failed git clone may leave behind when it does not clean up
PartialTree == Tree(clone_dir, GitFiles)

Absent == [exists |-> FALSE, entries |-> {}]
Present(entries) == [exists |-> TRUE, entries |-> entries]

RepoUrls == { "https://github.com/user/repo.git" }

\* s repeated n times
RECURSIVE Repeat(_, _)
Repeat(s, n) ==
    IF n = 0 THEN ""
    ELSE IF n % 2 = 1 THEN s \o Repeat(s, n - 1)
    ELSE LET half == Repeat(s, n \div 2) IN half \o half

\* the inputs build_prompt is applied to on its own: lists of at most
\* MaxSnippets (path, content) pairs, small and large, and a short and a very
\* long repository URL
PromptPairs ==
    { << << "a.py" >>, "" >>,
      << << "a.py" >>, "print(1)\n" >>,
      << << "src", "m.js" >>, Repeat("a", 40000) >>,
      << << "B.PY" >>, Repeat("b", 60000) >> }

PromptLists == UNION { [1..n -> PromptPairs] : n \in 0..MaxSnippets }

PromptUrls == RepoUrls \cup { "https://example.org/" \o Repeat("u", MAX_TOTAL_CHARS) }

\* the answers of the endpoint
Responses ==
    { [status_code |-> 200, text |-> "{\"choices\":[{\"message\":{\"content\":\"LGTM\"}}]}",
       choices |-> TRUE, content |-> "## Summary\nLGTM\n"],
      [status_code |-> 200, text |-> "{\"error\":{\"message\":\"Provider returned error\"}}",
       choices |-> FALSE, content |-> ""],
      [status_code |-> 401, text |-> "{\"error\":{\"message\":\"No auth credentials found\"}}",
       choices |-> FALSE, content |-> ""],
      [status_code |-> 500, text |-> "Internal Server Error",
       choices |-> FALSE, content |-> ""],
      [status_code |-> 429, text |-> "{\"choices\":[{\"message\":{\"content\":\"slow down\"}}]}",
       choices |-> TRUE, content |-> "slow down"] }

NoResponse == [status_code |-> 0, text |-> "", choices |-> FALSE, content |-> ""]
NoException == [type |-> "None", msg |-> ""]
NoReview == [set |-> FALSE, text |-> ""]

(***************************************************************************)
(* The state of one run of main.                                           *)
(***************************************************************************)
VARIABLES
    pc,          \* the statement main is at
    repo_url,    \* args.repo
    scratch,     \* the file system at clone_dir: [exists, entries]
    output,      \* the file system at output_file: [exists, text]
    pending,     \* the entries root.rglob('*') has still to yield
    code_files,  \* the list collect_code_files builds, then main's code_files
    found,       \* len(code_files) as main tests it at line 119, -1 before
    snippets,    \* main's snippets
    prompt,      \* main's prompt
    response,    \* the response requests.post returned
    review,      \* main's review: [set, text]
    exc,         \* the exception propagating out of the try block
    result,      \* how main ended: "running", "returned", "raised"
    calls,       \* the calls main has made so far, in order
    scratch0,    \* the scratch path when the run started
    output0,     \* the output path when the run started
    cloneCalls,  \* number of git clone commands issued
    cloneOnExisting, \* whether a git clone was issued with the scratch path present
    postCalls,   \* number of HTTP POSTs sent
    writeCalls   \* number of output_file.write_text calls

vars == << pc, repo_url, scratch, output, pending, code_files, found, snippets,
           prompt, response, review, exc, result, calls, scratch0, output0,
           cloneCalls, cloneOnExisting, postCalls, writeCalls >>

fsVars == << scratch, output >>
walkVars == << pending, code_files, found >>
dataVars == << snippets, prompt, response, review >>
startVars == << repo_url, scratch0, output0 >>
countVars == << cloneCalls, cloneOnExisting, postCalls, writeCalls >>

\* lines 103-114: the arguments are parsed, the try block is about to start
Init ==
    /\ pc = "clone_repo"
    /\ repo_url \in RepoUrls
    /\ scratch \in { Absent, Present(StaleTree) }
    /\ output \in { [exists |-> FALSE, text |-> ""],
                    [exists |-> TRUE, text |-> "report of an earlier run\n"] }
    /\ pending = {}
    /\ code_files = << >>
    /\ found = -1
    /\ snippets = << >>
    /\ prompt = ""
    /\ response = NoResponse
    /\ review = NoReview
    /\ exc = NoException
    /\ result = "running"
    /\ calls = << >>
    /\ scratch0 = scratch
    /\ output0 = output
    /\ cloneCalls = 0
    /\ cloneOnExisting = FALSE
    /\ postCalls = 0
    /\ writeCalls = 0

\* clone_repo without the removal of an existing directory
CloneKeepStale ==
    /\ pc = "clone_repo"
    /\ calls' = Append(calls, "clone_repo")
    /\ pc' = "git_clone"
    /\ UNCHANGED << fsVars, walkVars, dataVars, exc, result, startVars, countVars >>

\* lines 27-29, called from line 116
CloneRemoveStale ==
    /\ pc = "clone_repo"
    /\ scratch' = IF scratch.exists THEN Absent ELSE scratch
    /\ calls' = Append(calls, "clone_repo")
    /\ pc' = "git_clone"
    /\ UNCHANGED << output, walkVars, dataVars, exc, result, startVars, countVars >>

\* line 30, git exits 0: the repository is in the scratch directory.  git
\* refuses to clone into a directory that exists and is not empty.
GitCloneOk ==
    /\ pc = "git_clone"
    /\ ~scratch.exists \/ scratch.entries = {}
    /\ \E files \in Repositories :
           scratch' = Present(Tree(clone_dir, files \cup GitFiles))
    /\ cloneCalls' = cloneCalls + 1
    /\ cloneOnExisting' = (cloneOnExisting \/ scratch.exists)
    /\ pending' = scratch'.entries
    /\ code_files' = << >>
    /\ pc' = "rglob"
    /\ UNCHANGED << output, found, dataVars, exc, result, calls, startVars,
                    postCalls, writeCalls >>

\* a failed clone that is tried again
GitCloneFailRetry ==
    /\ pc = "git_clone"
    /\ scratch' \in { scratch } \cup
                    (IF scratch.exists THEN {} ELSE { Present(PartialTree) })
    /\ cloneCalls' = cloneCalls + 1
    /\ cloneOnExisting' = (cloneOnExisting \/ scratch.exists)
    /\ pc' = "clone_repo"
    /\ UNCHANGED << output, walkVars, dataVars, exc, result, calls, startVars,
                    postCalls, writeCalls >>

\* line 30, git exits non-zero (check=True raises CalledProcessError): git
\* removes what it created, or is cut short and leaves it
GitCloneFail ==
    /\ pc = "git_clone"
    /\ scratch' \in { scratch } \cup
                    (IF scratch.exists THEN {} ELSE { Present(PartialTree) })
    /\ cloneCalls' = cloneCalls + 1
    /\ cloneOnExisting' = (cloneOnExisting \/ scratch.exists)
    /\ exc' = [type |-> "CalledProcessError",
               msg |-> "Command '['git', 'clone', '--depth=1', ...]' returned non-zero exit status 128."]
    /\ pc' = "finally"
    /\ UNCHANGED << output, walkVars, dataVars, result, calls, startVars,
                    postCalls, writeCalls >>

\* lines 34-40: rglob yields one more entry, in whatever order the
\* directories list their entries
RglobStep ==
    /\ pc = "rglob"
    /\ \E entry \in pending :
           /\ pending' = pending \ { entry }
           /\ code_files' = IF Selected(entry, clone_dir)
                            THEN Append(code_files, entry.path)
                            ELSE code_files
    /\ UNCHANGED << pc, fsVars, found, dataVars, exc, result, calls, startVars,
                    countVars >>

\* main without the early return on an empty list
CollectReturnNoEarlyExit ==
    /\ pc = "rglob"
    /\ pending = {}
    /\ code_files' = sorted(code_files)
    /\ found' = Len(code_files')
    /\ calls' = Append(calls, "collect_code_files")
    /\ pc' = "read"
    /\ UNCHANGED << fsVars, pending, dataVars, exc, result, startVars, countVars >>

\* line 41 and lines 117-123: the walk is over, the list is sorted and
\* returned, and main returns when it is empty
CollectReturn ==
    /\ pc = "rglob"
    /\ pending = {}
    /\ code_files' = sorted(code_files)
    /\ found' = Len(code_files')
    /\ calls' = Append(calls, "collect_code_files")
    /\ pc' = IF code_files' = << >> THEN "finally" ELSE "read"
    /\ UNCHANGED << fsVars, pending, dataVars, exc, result, startVars, countVars >>

\* the data open() finds at a path of the scratch directory
DataAt(path) == (CHOOSE e \in scratch.entries : e.path = path).data

\* lines 124-127: every collected file is read; an exception leaving
\* read_file_safe would leave the loop and the try block
ReadFiles ==
    /\ pc = "read"
    /\ LET reads == [i \in 1..Len(code_files) |-> read_file_safe(DataAt(code_files[i]))]
           bad == { i \in 1..Len(code_files) : reads[i].raised }
           stop == IF bad = {} THEN Len(code_files) + 1
                   ELSE CHOOSE i \in bad : \A j \in bad : i <= j
       IN /\ snippets' = [i \in 1..(stop - 1) |->
                             << relative_to(code_files[i], clone_dir), reads[i].value >>]
          /\ calls' = calls \o [i \in 1..(IF bad = {} THEN stop - 1 ELSE stop)
                                  |-> "read_file_safe"]
          /\ exc' = IF bad = {} THEN exc
                    ELSE [type |-> "OSError", msg |-> reads[stop].value]
          /\ pc' = IF bad = {} THEN "build_prompt" ELSE "finally"
    /\ UNCHANGED << fsVars, walkVars, prompt, response, review, result, startVars,
                    countVars >>

\* line 129
BuildPrompt ==
    /\ pc = "build_prompt"
    /\ prompt' = build_prompt(snippets, repo_url)
    /\ calls' = Append(calls, "build_prompt")
    /\ pc' = "get_code_review"
    /\ UNCHANGED << fsVars, walkVars, snippets, response, review, exc, result,
                    startVars, countVars >>

\* line 130: the POST is answered, and get_code_review returns or raises
ReviewAnswered ==
    /\ pc = "get_code_review"
    /\ \E r \in Responses :
           /\ response' = r
           /\ IF get_code_review(r).raised
              THEN /\ exc' = [type |-> "Exception", msg |-> get_code_review(r).value]
                   /\ review' = review
                   /\ pc' = "finally"
              ELSE /\ exc' = exc
                   /\ review' = [set |-> TRUE, text |-> get_code_review(r).value]
                   /\ pc' = "write_text"
    /\ postCalls' = postCalls + 1
    /\ calls' = Append(calls, "get_code_review")
    /\ UNCHANGED << fsVars, walkVars, snippets, prompt, result, startVars,
                    cloneCalls, cloneOnExisting, writeCalls >>

\* line 98 raises: the endpoint cannot be reached
ReviewUnreachable ==
    /\ pc = "get_code_review"
    /\ exc' = [type |-> "ConnectionError", msg |-> "Failed to establish a new connection"]
    /\ postCalls' = postCalls + 1
    /\ calls' = Append(calls, "get_code_review")
    /\ pc' = "finally"
    /\ UNCHANGED << fsVars, walkVars, dataVars, result, startVars,
                    cloneCalls, cloneOnExisting, writeCalls >>

\* the report appended to what the output file holds
WriteAppend ==
    /\ pc = "write_text"
    /\ output' = [exists |-> TRUE, text |-> output.text \o review.text]
    /\ writeCalls' = writeCalls + 1
    /\ calls' = Append(calls, "write_text")
    /\ pc' = "finally"
    /\ UNCHANGED << scratch, walkVars, dataVars, exc, result, startVars,
                    cloneCalls, cloneOnExisting, postCalls >>

\* lines 132-133: the report is written
WriteOk ==
    /\ pc = "write_text"
    /\ output' = [exists |-> TRUE, text |-> review.text]
    /\ writeCalls' = writeCalls + 1
    /\ calls' = Append(calls, "write_text")
    /\ pc' = "finally"
    /\ UNCHANGED << scratch, walkVars, dataVars, exc, result, startVars,
                    cloneCalls, cloneOnExisting, postCalls >>

\* line 132 raises OSError: the file cannot be opened (the output path is
\* left as it was), or it was opened, which truncates it, and the write fails
WriteFail ==
    /\ pc = "write_text"
    /\ output' \in { output, [exists |-> TRUE, text |-> ""] }
    /\ writeCalls' = writeCalls + 1
    /\ calls' = Append(calls, "write_text")
    /\ exc' = [type |-> "OSError", msg |-> "[Errno 28] No space left on device"]
    /\ pc' = "finally"
    /\ UNCHANGED << scratch, walkVars, dataVars, result, startVars,
                    cloneCalls, cloneOnExisting, postCalls >>

\* the cleanup at the end of the try block instead of in a finally clause:
\* it runs only when nothing was raised
CleanupOnSuccessOnly ==
    /\ pc = "finally"
    /\ scratch' = IF scratch.exists /\ exc = NoException THEN Absent ELSE scratch
    /\ calls' = Append(calls, "cleanup")
    /\ result' = IF exc = NoException THEN "returned" ELSE "raised"
    /\ pc' = "done"
    /\ UNCHANGED << output, walkVars, dataVars, exc, startVars, countVars >>

\* lines 135-137, then main returns or the exception leaves it
Finally ==
    /\ pc = "finally"
    /\ scratch' = IF scratch.exists THEN Absent ELSE scratch
    /\ calls' = Append(calls, "cleanup")
    /\ result' = IF exc = NoException THEN "returned" ELSE "raised"
    /\ pc' = "done"
    /\ UNCHANGED << output, walkVars, dataVars, exc, startVars, countVars >>

Next ==
    \/ CloneRemoveStale
    \/ GitCloneOk
    \/ GitCloneFail
    \/ RglobStep
    \/ CollectReturn
    \/ ReadFiles
    \/ BuildPrompt
    \/ ReviewAnswered
    \/ ReviewUnreachable
    \/ WriteOk
    \/ WriteFail
    \/ Finally

Spec == Init /\ [][Next]_vars

(***************************************************************************)
(* build_prompt on its own: main stands at line 129 with any bounded list  *)
(* of snippets and any of the URLs, and the one step is the call.          *)
(***************************************************************************)
InitPrompt ==
    /\ pc = "build_prompt"
    /\ repo_url \in PromptUrls
    /\ snippets \in PromptLists
    /\ scratch = Absent
    /\ output = [exists |-> FALSE, text |-> ""]
    /\ pending = {}
    /\ code_files = << >>
    /\ found = Len(snippets)
    /\ prompt = ""
    /\ response = NoResponse
    /\ review = NoReview
    /\ exc = NoException
    /\ result = "running"
    /\ calls = << >>
    /\ scratch0 = scratch
    /\ output0 = output
    /\ cloneCalls = 0
    /\ cloneOnExisting = FALSE
    /\ postCalls = 0
    /\ writeCalls = 0

NextPrompt == BuildPrompt

SpecPrompt == InitPrompt /\ [][NextPrompt]_vars

(***************************************************************************)
(* Properties.                                                             *)
(***************************************************************************)
\* sub occurs in s
Contains(s, sub) ==
    \E i \in 1..(Len(s) - Len(sub) + 1) : SubSeq(s, i, i + Len(sub) - 1) = sub

\* the elements of a sequence
Range(s) == { s[i] : i \in 1..Len(s) }

\* build_prompt has returned
PromptBuilt == pc \in { "get_code_review", "write_text" } \/ postCalls > 0

\* C2: the document build_prompt returns is never longer than
\* MAX_TOTAL_CHARS characters, whatever the snippets and the repository URL.
PromptWithinBudget == PromptBuilt => Len(prompt) <= MAX_TOTAL_CHARS

\* the length of the preamble and of blocks 1..j of the snippets
RECURSIVE CumLen(_)
CumLen(j) ==
    IF j = 0 THEN Len(intro(repo_url))
    ELSE CumLen(j - 1) + Len(block(snippets[j][1], snippets[j][2]))

\* the first index at which the preamble and the blocks up to it exceed the
\* budget, Len(snippets) + 1 when there is none
FirstOverflow ==
    IF \E j \in 1..Len(snippets) : CumLen(j) > MAX_TOTAL_CHARS
    THEN CHOOSE j \in 1..Len(snippets) :
             /\ CumLen(j) > MAX_TOTAL_CHARS
             /\ \A i \in 1..(j - 1) : CumLen(i) <= MAX_TOTAL_CHARS
    ELSE Len(snippets) + 1

\* C3: the document is the preamble followed by exactly the blocks before
\* the first overflowing index, in input order, and by no later block; when
\* nothing overflows it holds every block.
StopsAtFirstOverflow ==
    PromptBuilt =>
        prompt = intro(repo_url)
                 \o Join([i \in 1..(FirstOverflow - 1) |->
                              block(snippets[i][1], snippets[i][2])])

\* C3's case: a block overflows after some block was packed, and a later
\* block would on its own still fit in what is left of the budget
LaterBlockWouldFit ==
    /\ PromptBuilt
    /\ FirstOverflow > 1
    /\ \E j \in (FirstOverflow + 1)..Len(snippets) :
           CumLen(FirstOverflow - 1) + Len(block(snippets[j][1], snippets[j][2]))
               <= MAX_TOTAL_CHARS

\* C1: when a run of main ends, however it ends, nothing exists at the
\* scratch path, whether or not something was there when the run started.
ScratchAbsentAtEnd == pc = "done" => ~scratch.exists

\* C1's case: a run that found a stale scratch directory, cloned, collected
\* files and then failed has ended
FailedRunWithStaleScratchEnded ==
    /\ pc = "done"
    /\ result = "raised"
    /\ scratch0.exists
    /\ found > 0

\* C4: once the collector has returned no file, the Review Client is never
\* invoked, nothing is written to the output path, no error is raised, and
\* the run ends by returning with the scratch directory removed.
NoFilesNoReview ==
    found = 0 =>
        /\ pc \in { "finally", "done" }
        /\ postCalls = 0
        /\ writeCalls = 0
        /\ "get_code_review" \notin Range(calls)
        /\ output = output0
        /\ exc = NoException
        /\ pc = "done" => (result = "returned" /\ ~scratch.exists)

\* C4's case: a run whose clone succeeded and whose collector found no file
\* has ended
NoFilesRunEnded ==
    /\ pc = "done"
    /\ cloneCalls = 1
    /\ found = 0
    /\ "cleanup" \in Range(calls)

\* the entries of the scratch tree the claim C5 asks for: regular files whose
\* lower-cased extension is allow-listed and whose relative path has no part
\* in the exclusion set
Wanted ==
    { e \in scratch.entries :
          /\ e.kind = "file"
          /\ lower(suffix(e.path)) \in SUPPORTED_EXTENSIONS
          /\ Range(relative_to(e.path, clone_dir)) \cap EXCLUDE_DIRS = {} }

\* C5: the list collect_code_files returns holds exactly the wanted files of
\* the tree, each once, in ascending path order, whatever the order in which
\* the walk met them.
CollectExact ==
    (found # -1 /\ scratch.exists) =>
        /\ Range(code_files) = { e.path : e \in Wanted }
        /\ \A i, j \in 1..Len(code_files) :
               i < j => PathLess(code_files[i], code_files[j])

\* C5's case: the collector has returned two files, one of them with an
\* upper-case extension, of a tree that also holds a file it had to leave out
CollectedSomeLeftSome ==
    /\ found = 2
    /\ scratch.exists
    /\ \E i \in 1..Len(code_files) :
           suffix(code_files[i]) # lower(suffix(code_files[i]))
    /\ \E e \in scratch.entries :
           e.kind = "file" /\ e.path \notin Range(code_files)

\* the last call main made
LastCall == IF calls = << >> THEN "" ELSE calls[Len(calls)]

CloneFailed == exc.type = "CalledProcessError"
ApiRefused == response # NoResponse /\ response.status_code # 200

\* C6: the clone command is issued at most once and the POST is sent at most
\* once; after a clone failure or a non-200 answer no later stage runs, and
\* the run ends raising, with the scratch directory removed.
FatalErrorsAbortWithoutRetry ==
    /\ cloneCalls <= 1
    /\ postCalls <= 1
    /\ CloneFailed =>
           /\ pc \in { "finally", "done" }
           /\ calls \in { << "clone_repo" >>, << "clone_repo", "cleanup" >> }
           /\ found = -1 /\ postCalls = 0 /\ writeCalls = 0
    /\ ApiRefused =>
           /\ pc \in { "finally", "done" }
           /\ exc.type = "Exception"
           /\ LastCall \in { "get_code_review", "cleanup" }
           /\ writeCalls = 0
    /\ (pc = "done" /\ (CloneFailed \/ ApiRefused)) =>
           (result = "raised" /\ ~scratch.exists /\ LastCall = "cleanup")

\* C6's case: a run whose POST was answered with a non-200 status has ended
ApiRefusedRunEnded ==
    /\ pc = "done"
    /\ ApiRefused
    /\ result = "raised"

\* the reading loop of main is over
ReadOver == found > 0 /\ pc # "read"

\* C7: an unreadable file raises nothing: once the reading loop is over every
\* collected file has contributed one (relative path, content) pair, in
\* order, the content of an unreadable file is a placeholder holding the
\* error description, and main goes on to build_prompt.
UnreadableFilesDoNotAbort ==
    ReadOver =>
        /\ Len(snippets) = Len(code_files)
        /\ \A i \in 1..Len(snippets) :
               snippets[i][1] = relative_to(code_files[i], clone_dir)
        /\ scratch.exists =>
               \A i \in 1..Len(snippets) :
                   IF DataAt(code_files[i]).ok
                   THEN snippets[i][2] = DataAt(code_files[i]).text
                   ELSE /\ Contains(snippets[i][2], "ERROR reading file")
                        /\ Contains(snippets[i][2], DataAt(code_files[i]).text)
        /\ pc = "build_prompt" \/ "build_prompt" \in Range(calls)

\* C7's case: a collected file could not be read and the prompt was built,
\* its placeholder in it
PromptBuiltWithPlaceholder ==
    /\ pc = "get_code_review"
    /\ scratch.exists
    /\ \E i \in 1..Len(code_files) :
           /\ ~DataAt(code_files[i]).ok
           /\ Contains(prompt, "[ERROR reading file: " \o DataAt(code_files[i]).text \o "]")

\* C8: on status 200 get_code_review returns exactly the text of
\* choices[0].message.content and raises nothing; on any other status it
\* returns no text and raises an error whose message holds the status code
\* and the response body as they are.
ReviewClientContract ==
    response # NoResponse =>
        /\ (response.status_code = 200 /\ response.choices) =>
               /\ review = [set |-> TRUE, text |-> response.content]
               /\ exc.type # "Exception"
        /\ response.status_code # 200 =>
               /\ review = NoReview
               /\ exc.type = "Exception"
               /\ Contains(exc.msg, ToString(response.status_code))
               /\ Contains(exc.msg, response.text)

\* C8's case: the endpoint has answered with a status other than 200 and a
\* body that holds a completion
RefusedWithCompletionBody ==
    /\ response # NoResponse
    /\ response.status_code # 200
    /\ response.choices
    /\ pc = "finally"

\* C9: the clone command is never issued while something exists at the
\* scratch path: a stale directory is removed first.
CloneNeverOnExistingScratch ==
    /\ pc = "git_clone" => ~scratch.exists
    /\ ~cloneOnExisting

\* C9's case: the run started with a stale scratch directory and the clone
\* command has been issued
ClonedAfterStaleScratch ==
    /\ scratch0.exists
    /\ cloneCalls = 1

\* C10: write_text is called at most once, and only after a successful
\* clone, a non-empty collection and a review returned on status 200; when
\* it completes the output file holds exactly that review; while it has not
\* been called the output path is as it was when the run started.
ReportWrittenOnlyOnSuccess ==
    /\ writeCalls <= 1
    /\ writeCalls > 0 =>
           /\ cloneCalls = 1 /\ ~CloneFailed
           /\ found >= 1
           /\ response.status_code = 200
           /\ review = [set |-> TRUE, text |-> response.content]
    /\ (writeCalls = 1 /\ exc = NoException) =>
           output = [exists |-> TRUE, text |-> review.text]
    /\ writeCalls = 0 => output = output0
    /\ (pc = "done" /\ (CloneFailed \/ found = 0 \/ ApiRefused)) =>
           (writeCalls = 0 /\ output = output0)

\* C10's case: a successful run has ended, its report written over the
\* report of an earlier run
ReportOverwritten ==
    /\ pc = "done"
    /\ result = "returned"
    /\ writeCalls = 1
    /\ output0.exists
    /\ output # output0
====
